---- MODULE Spec2Model ----
(***************************************************************************)
(* Measurement pipeline of the QUIC throughput harness:                    *)
(*   - the three topology shapes (dumbbell.py, parkinglot.py,              *)
(*     multibottleneck.py) with Mininet's port numbering,                  *)
(*   - one run: experiment_runner_quic.main driving                        *)
(*     helper_quic.run_quic_experiments and the quic_client processes,     *)
(*   - aggregation of the raw metrics file (helper_quic.aggregate_metrics),*)
(*   - the parameter sweep of exp_parkinglot.py.                           *)
(* Time is counted in whole seconds.  RTT values are counted in            *)
(* hundredths of a millisecond (the sender rounds rtt_ms to 2 decimals).   *)
(* Rational numbers are pairs <<numerator, denominator>>.                  *)
(***************************************************************************)
EXTENDS Integers, Sequences, FiniteSets, Bags, TLC

VARIABLES
    args,        \* parsed command line of experiment_runner_quic.py
    pc,          \* position of main / run_quic_experiments
    exitCode,    \* exit status of the runner process (-1 while it runs)
    failure,     \* "none" | "error" | "interrupt": what the try block of main caught
    links,       \* topology graph: the links in the order addLink created them
    netState,    \* "none" | "started" | "stopped": the Mininet network
    now,         \* wall clock, seconds
    wake,        \* time at which the orchestrator's current sleep ends
    servers,     \* "none" | "running" | "killed": quic_server processes
    senders,     \* bag of quic_client processes, each [phase, at]
    traffic,     \* bytes (in chunk units) the senders have put on the bottleneck
    tx1, tx2,    \* before/after tx_bytes per entry of switch_interface
    rx1, rx2,    \* before/after rx_bytes per entry of other_switch
    switch_throughput, \* rows <<interface, throughput>> in insertion order
    snaps,       \* history: for each counter snapshot, the senders' phases then
    rawFile,     \* shared raw metrics file: NoFile or a sequence of lines
    aggState,    \* "idle" | "done" | "skipped" | "raised": aggregate_metrics
    aggSeen,     \* history: senders' phases and file when aggregation opened it
    rttCsv,      \* rtt.csv: NoFile or rows <<time_sec, avg_rtt_ms>>
    cwndCsv,     \* cwnd.csv: NoFile or rows <<time_sec, window>>
    switchesCsv, \* switches.csv: NoFile or rows <<interface, mbps (hundredths), duration>>
    teardown,    \* teardown steps executed so far
    sweep,       \* state of the batch runner exp_parkinglot.py
    flows,       \* the quic_client command lines issued: [src, dst, rate]
    client       \* one quic_client process inside send_data_with_metrics

vars == <<args, pc, exitCode, failure, links, netState, now, wake,
          servers, senders, traffic, tx1, tx2, rx1, rx2, switch_throughput,
          snaps, rawFile, aggState, aggSeen, rttCsv, cwndCsv, switchesCsv,
          teardown, sweep, flows, client>>

-----------------------------------------------------------------------------
(* Bounds of the model *)

MaxHosts == 40
MaxDuration == 2
MaxLatency == 5
MaxSlow == 1
MaxFailed == 1
MaxClientDuration == 3
MaxLines == 3
MaxSec == 2

(* Program constants *)

SettleDelay == 2
DrainBuffer == 4
BitsPerByte == 8
Mega == 1000000
DefaultHosts == 40
DefaultBw == 15

\* a file: absent, or present with its lines / rows
NoFile == [exists |-> FALSE, lines |-> << >>]
File(lines) == [exists |-> TRUE, lines |-> lines]
NotOpened == [opened |-> FALSE, phases |-> {}, late |-> FALSE]
NoArgs == [topo |-> "none", hosts |-> 0, duration |-> 0, bw |-> 0]

TopoNames == {"dumbbell", "parkinglot", "multibottleneck"}
HostCounts == 0 .. MaxHosts
Durations == 0 .. MaxDuration
Bandwidths == {DefaultBw}
Latencies == 0 .. MaxLatency

\* the end-to-end scenario: --topo dumbbell --bw 10 --delay 1ms --loss 0
\* --hosts 4 --duration 5
EndToEndScenario == [topo |-> "dumbbell", hosts |-> 4, duration |-> 5, bw |-> 10]

Min(a, b) == IF a <= b THEN a ELSE b
Abs(a) == IF a < 0 THEN -a ELSE a

-----------------------------------------------------------------------------
(* Topology model *)

H(i) == <<"h", i>>
Sw(k) == <<"s", k>>
Iface(k, p) == [sw |-> Sw(k), port |-> p]

\* for i in range(lo, hi): addLink(hosts[i], sw)  /  addLink(sw, hosts[i])
HostLinks(lo, hi, sw, hostFirst) ==
    [j \in 1 .. (IF hi > lo THEN hi - lo ELSE 0) |->
        IF hostFirst THEN <<H(lo + j - 1), sw>> ELSE <<sw, H(lo + j - 1)>>]

DumbbellBuild(n) ==
    LET mid == n \div 2
    IN  HostLinks(0, mid, Sw(1), TRUE)
        \o HostLinks(mid, n, Sw(2), TRUE)
        \o << <<Sw(1), Sw(2)>> >>

ParkingLotNewMid(mid) == mid \div 2

ParkingLotBuild(n) ==
    LET mid == n \div 2
        new_mid == ParkingLotNewMid(mid)
    IN  HostLinks(0, mid, Sw(1), TRUE)
        \o HostLinks(mid, mid + new_mid, Sw(2), FALSE)
        \o HostLinks(mid + new_mid, n, Sw(3), FALSE)
        \o << <<Sw(1), Sw(2)>>, <<Sw(2), Sw(3)>> >>

MultiBottleneckBuild(n) ==
    LET mid == n \div 2
        new_mid == mid \div 2
    IN  HostLinks(0, mid, Sw(1), TRUE)
        \o HostLinks(mid, mid + new_mid, Sw(5), FALSE)
        \o HostLinks(mid + new_mid, n, Sw(6), FALSE)
        \o << <<Sw(1), Sw(2)>>, <<Sw(1), Sw(3)>>,
              <<Sw(2), Sw(4)>>, <<Sw(3), Sw(4)>>,
              <<Sw(4), Sw(5)>>, <<Sw(4), Sw(6)>> >>

Build(topo, n) ==
    CASE topo = "dumbbell" -> DumbbellBuild(n)
      [] topo = "parkinglot" -> ParkingLotBuild(n)
      [] topo = "multibottleneck" -> MultiBottleneckBuild(n)
      [] OTHER -> << >>

\* switch_interface(net): the hard-coded transmit list of each shape
SwitchInterface(topo) ==
    CASE topo = "dumbbell" -> << Iface(1, 21) >>
      [] topo = "parkinglot" -> << Iface(1, 21), Iface(2, 12) >>
      [] topo = "multibottleneck" ->
            << Iface(1, 21), Iface(2, 2), Iface(3, 2), Iface(4, 2), Iface(4, 3) >>
      [] OTHER -> << >>

\* other_interfaces(net): the receive list (multibottleneck only)
OtherInterfaces(topo) ==
    IF topo = "multibottleneck" THEN << Iface(2, 1) >> ELSE << >>

IsHost(node) == node[1] = "h"
IsSwitch(node) == node[1] = "s"

\* Mininet numbers a switch's ports 1, 2, ... in the order its links are added
Degree(L, node) == Cardinality({k \in 1 .. Len(L) : L[k][1] = node \/ L[k][2] = node})
IfaceExists(L, ifc) == ifc.port >= 1 /\ ifc.port <= Degree(L, ifc.sw)

\* the link behind <switch>-eth<port>: the port-th link attached to the switch
Attached(L, node, k) == L[k][1] = node \/ L[k][2] = node
LinkIndex(L, ifc) ==
    CHOOSE k \in 1 .. Len(L) :
        /\ Attached(L, ifc.sw, k)
        /\ Cardinality({j \in 1 .. k : Attached(L, ifc.sw, j)}) = ifc.port
IsInterSwitch(link) == IsSwitch(link[1]) /\ IsSwitch(link[2])
InterSwitchLinks(L) == {k \in 1 .. Len(L) : IsInterSwitch(L[k])}

\* hosts attached to a switch
HostsOn(L, sw) ==
    {L[k][1] : k \in {j \in 1 .. Len(L) : L[j][2] = sw /\ IsHost(L[j][1])}}
    \cup {L[k][2] : k \in {j \in 1 .. Len(L) : L[j][1] = sw /\ IsHost(L[j][2])}}

AllHosts(L) ==
    {L[k][1] : k \in {j \in 1 .. Len(L) : IsHost(L[j][1])}}
    \cup {L[k][2] : k \in {j \in 1 .. Len(L) : IsHost(L[j][2])}}

\* the two terminal switches of a three-stage shape
TerminalSwitches(topo) ==
    CASE topo = "parkinglot" -> <<Sw(2), Sw(3)>>
      [] topo = "multibottleneck" -> <<Sw(5), Sw(6)>>
      [] OTHER -> << >>

SourceGroup(L) == HostsOn(L, Sw(1))
DestGroup(L) == AllHosts(L) \ SourceGroup(L)

-----------------------------------------------------------------------------
(* Raw metrics file and aggregate_metrics *)

\* A line of the raw metrics file.  kind "text": not JSON; kind "json": valid
\* JSON that is not an object; kind "rec": a JSON object holding the fields
\* named in has.  The lookups data['time'], data['rtt_ms'], data['cwnd_bytes']
\* happen in this order, so an object lacking an earlier field behaves like
\* the one holding only the fields before it.
FieldSets == {{}, {"time"}, {"time", "rtt_ms"}, {"time", "rtt_ms", "cwnd_bytes"}}
Seconds == 1 .. MaxSec
RttVals == {1, 2}
CwndVals == {3}

Rec(has, t, r, c) == [kind |-> "rec", has |-> has, time |-> t, rtt |-> r, cwnd |-> c]
TextLine == [kind |-> "text", has |-> {}, time |-> 0, rtt |-> 0, cwnd |-> 0]
JsonLine == [kind |-> "json", has |-> {}, time |-> 0, rtt |-> 0, cwnd |-> 0]

Lines ==
    {TextLine, JsonLine, Rec({}, 0, 0, 0)}
    \cup {Rec({"time"}, t, 0, 0) : t \in Seconds}
    \cup {Rec({"time", "rtt_ms"}, t, r, 0) : t \in Seconds, r \in RttVals}
    \cup {Rec({"time", "rtt_ms", "cwnd_bytes"}, t, r, c) :
              t \in Seconds, r \in RttVals, c \in CwndVals}

\* sum(list), halving the list
RECURSIVE SumRange(_, _, _)
SumRange(s, lo, hi) ==
    IF lo > hi THEN 0
    ELSE IF lo = hi THEN s[lo]
    ELSE LET mid == (lo + hi) \div 2
         IN  SumRange(s, lo, mid) + SumRange(s, mid + 1, hi)

SumSeq(s) == SumRange(s, 1, Len(s))

RECURSIVE SortedSeq(_)
SortedSeq(set) ==
    IF set = {} THEN << >>
    ELSE LET m == CHOOSE x \in set : \A y \in set : x <= y
         IN  <<m>> \o SortedSeq(set \ {m})

\* the mean cut off instead of rounded
Round2Truncating(sum, len, up) == sum \div len

\* round(sum / len, 2) on values counted in hundredths: the nearest whole
\* hundredth.  A quotient that lies halfway in decimal is a binary float just
\* above or just below the half, so round() takes it up or down (up).
Round2(sum, len, up) ==
    LET q == sum \div len
        r == sum % len
    IN  IF 2 * r < len THEN q
        ELSE IF 2 * r > len THEN q + 1
        ELSE IF up THEN q + 1 ELSE q

\* the keys of metrics_by_time a file leads to
FileTimes(file) ==
    {file.lines[i].time : i \in {j \in 1 .. Len(file.lines) : "time" \in file.lines[j].has}}

\* for every second of the file, the side a halfway mean of that second falls on
Ties(file) == [FileTimes(file) -> BOOLEAN]

\* int(sum / len)
IntAvg(sum, len) == sum \div len

\* the lines that get as far as appending to metrics_by_time[t][field]:
\* objects with a time of t and every field looked up before the append
Appended(lines, t, field) ==
    LET need == IF field = "rtt" THEN {"time", "rtt_ms"}
                ELSE {"time", "rtt_ms", "cwnd_bytes"}
        Test(ln) == ln.kind = "rec" /\ need \subseteq ln.has /\ ln.time = t
        sel == SelectSeq(lines, Test)
    IN  [i \in 1 .. Len(sel) |-> IF field = "rtt" THEN sel[i].rtt ELSE sel[i].cwnd]

\* the for-loop over the file's lines: metrics_by_time when the loop ends (the
\* defaultdict creates the entry of t when a line with a time of t is seen);
\* "raised" when an exception other than JSONDecodeError and KeyError leaves
\* the loop, which a line that is JSON but no object causes at data['time']
ParseLines(lines) ==
    [status |-> IF \E i \in 1 .. Len(lines) : lines[i].kind = "json"
                THEN "raised" ELSE "ok",
     by |-> [t \in FileTimes(File(lines)) |->
                [rtt |-> Appended(lines, t, "rtt"),
                 cwnd |-> Appended(lines, t, "cwnd")]]]

RECURSIVE RttRows(_, _, _)
RttRows(m, keys, ties) ==
    IF keys = << >> THEN << >>
    ELSE LET t == Head(keys)
             row == IF m[t].rtt # << >>
                    THEN << <<t, Round2(SumSeq(m[t].rtt), Len(m[t].rtt), ties[t])>> >>
                    ELSE << >>
         IN  row \o RttRows(m, Tail(keys), ties)

RECURSIVE CwndRows(_, _)
CwndRows(m, keys) ==
    IF keys = << >> THEN << >>
    ELSE LET t == Head(keys)
             row == IF m[t].cwnd # << >>
                    THEN << <<t, IntAvg(SumSeq(m[t].cwnd), Len(m[t].cwnd))>> >>
                    ELSE << >>
         IN  row \o CwndRows(m, Tail(keys))

\* aggregate_metrics(raw_metrics_file, output_dir, duration): what it leaves in
\* rtt.csv and cwnd.csv (write: whether the two files are written)
\* a missing file propagating as an error instead of the early return
AggregateMetricsMissingRaises(file, ties) ==
    IF ~file.exists
    THEN [status |-> "raised", write |-> FALSE, rtt |-> << >>, cwnd |-> << >>]
    ELSE LET p == ParseLines(file.lines)
             keys == SortedSeq(DOMAIN p.by)
         IN  IF p.status = "raised"
             THEN [status |-> "raised", write |-> FALSE, rtt |-> << >>, cwnd |-> << >>]
             ELSE [status |-> "done", write |-> TRUE, rtt |-> RttRows(p.by, keys, ties),
                   cwnd |-> CwndRows(p.by, keys)]

AggregateMetrics(file, ties) ==
    IF ~file.exists
    THEN [status |-> "skipped", write |-> FALSE, rtt |-> << >>, cwnd |-> << >>]
    ELSE LET p == ParseLines(file.lines)
             keys == SortedSeq(DOMAIN p.by)
         IN  IF p.status = "raised"
             THEN [status |-> "raised", write |-> FALSE, rtt |-> << >>, cwnd |-> << >>]
             ELSE [status |-> "done", write |-> TRUE, rtt |-> RttRows(p.by, keys, ties),
                   cwnd |-> CwndRows(p.by, keys)]

-----------------------------------------------------------------------------
(* One run: experiment_runner_quic.main and helper_quic.run_quic_experiments *)

\* keyword arguments load_topology passes to the topology class
LoadKwargs(topo) ==
    CASE topo = "dumbbell" -> {"bw", "delay", "loss", "number_of_hosts"}
      [] topo = "parkinglot" ->
            {"bw1", "bw2", "delay", "loss", "number_of_hosts", "jitter"}
      [] topo = "multibottleneck" ->
            {"bw1", "bw2", "bw3", "delay", "loss", "number_of_hosts"}
      [] OTHER -> {}

\* parameters the shape's build() accepts
BuildParams(topo) ==
    CASE topo = "dumbbell" -> {"bw", "delay", "loss", "number_of_hosts"}
      [] topo = "parkinglot" -> {"bw1", "bw2", "delay", "loss", "number_of_hosts"}
      [] topo = "multibottleneck" ->
            {"bw1", "bw2", "bw3", "delay", "loss", "number_of_hosts"}
      [] OTHER -> {}

\* Topo.__init__ hands every keyword to build(); an unknown one is a TypeError
ConstructOk(topo) == LoadKwargs(topo) \subseteq BuildParams(topo)

\* the names of a shape's module whose value is a class, in the order of
\* dir(module) (sorted): the shape's class comes before the imported Topo
ModuleTypes(topo) ==
    CASE topo = "dumbbell" -> <<"DumbbellTopo", "Topo">>
      [] topo = "parkinglot" -> <<"ParkingLotTopo", "Topo">>
      [] topo = "multibottleneck" -> <<"MultiBottleneckTopo", "Topo">>
      [] OTHER -> << >>

\* load_topology returns from the first class the loop meets
LoadedClass(topo) == Head(ModuleTypes(topo))

\* the bandwidth keywords of the call: bw, 0.8 * bw and 0.6 * bw as rationals
LoadBandwidths(topo, bw) ==
    CASE topo = "dumbbell" -> [bw |-> <<bw, 1>>]
      [] topo = "parkinglot" -> [bw1 |-> <<bw, 1>>, bw2 |-> <<8 * bw, 10>>]
      [] topo = "multibottleneck" ->
            [bw1 |-> <<bw, 1>>, bw2 |-> <<8 * bw, 10>>, bw3 |-> <<6 * bw, 10>>]
      [] OTHER -> << >>

\* get_bytes / get_rx_bytes: the counter file of an interface that does not
\* exist cannot be opened.  A counter holds what it held when the network
\* came up (any value; the port number stands for it) plus the bytes that
\* crossed since.
\* a statistics file that reads as 0 for an interface that is not there
CounterDefaultsToZero(L, ifc) == TRUE

\* open("/sys/class/net/<device>/statistics/tx_bytes"): FileNotFoundError
\* unless the device exists
CounterReadable(L, ifc) == IfaceExists(L, ifc)
ReadCounter(ifc, bytes) == ifc.port + bytes

AllReadable(L, list) == \A i \in 1 .. Len(list) : CounterReadable(L, list[i])

RatDiv(q, k) == <<q[1], q[2] * k>>

\* the delta divided by the whole sleep, duration + 4
ThroughputOverSleep(before, after, duration) ==
    RatDiv(RatDiv(<<(after - before) * BitsPerByte, 1>>, Mega), duration + DrainBuffer)

\* ((after - before) * 8) / 1e6 / duration
Throughput(before, after, duration) ==
    RatDiv(RatDiv(<<(after - before) * BitsPerByte, 1>>, Mega), duration)

\* mid = number_of_hosts // 2; s1_hosts = hosts[:mid]; s2_hosts = hosts[mid:]
Mid(n) == n \div 2
NumSources(n) == Min(Mid(n), n)
NumDests(n) == n - NumSources(n)

\* the smoothed RTT the transport engine reports at elapsed second k
SampleRtt(k) == IF k % 2 = 1 THEN 1 ELSE 2

\* a sample at every whole second from 0 to duration
MetricsBufferEverySecond(duration, late) ==
    [k \in 1 .. duration + 1 |-> Rec({"time", "rtt_ms"}, k - 1, SampleRtt(k), 0)]

\* client.metrics_buffer after a send loop of `duration` seconds: a sample
\* {'time', 'rtt_ms'} per elapsed second 1 .. duration-1 (a sample needs a full
\* second since the previous one).  The loop condition and current_time are
\* two readings of the clock, so the last pass can take its sample at elapsed
\* second `duration` (late).
MetricsBuffer(duration, late) ==
    [k \in 1 .. (IF duration > 1 THEN duration - 1 ELSE 0)
                 + (IF late /\ duration > 0 THEN 1 ELSE 0) |->
        Rec({"time", "rtt_ms"}, k, SampleRtt(k), 0)]

\* bandwidth / len(s1_hosts)
PerFlowRate(bandwidth, sources) == <<bandwidth, sources>>

\* every client pointed at the first destination host
ClientFlowsOneDest(n, bandwidth) ==
    [i \in 1 .. NumSources(n) |->
        [src |-> H(i - 1), dst |-> H(Mid(n)),
         rate |-> PerFlowRate(bandwidth, NumSources(n))]]

\* for i in range(mid): source = s1_hosts[i]; dest = s2_hosts[i];
\* quic_client --host dest.IP() --rate per_flow_rate, run on source
ClientFlows(n, bandwidth) ==
    [i \in 1 .. NumSources(n) |->
        [src |-> H(i - 1), dst |-> H(Mid(n) + i - 1),
         rate |-> PerFlowRate(bandwidth, NumSources(n))]]

\* the buffer written during the loop as well as after it
AppendBufferTwice(file, buf) == File(file.lines \o buf \o buf)

\* with open(metrics_file, 'a') as f: for m in client.metrics_buffer: f.write(...)
AppendBuffer(file, buf) == File(file.lines \o buf)

Sender(phase, at) == [phase |-> phase, at |-> at]
LivePhases == {"starting", "sending"}
Phases(bag) == {s.phase : s \in BagToSet(bag)}
CountIn(bag, phase) ==
    LET sel == {s \in BagToSet(bag) : s.phase = phase}
    IN  BagCardinality([s \in sel |-> bag[s]])

RECURSIVE SeqToBag(_)
SeqToBag(q) ==
    IF q = << >> THEN EmptyBag
    ELSE SetToBag({Sender("starting", Head(q))}) (+) SeqToBag(Tail(q))

Copies(e, n) == IF n > 0 THEN [x \in {e} |-> n] ELSE EmptyBag

\* a signal that reaches no client
KillNone(bag) == bag

\* pkill -f quic_client.py
KillAll(bag) ==
    LET dead == {s \in BagToSet(bag) : s.phase \notin LivePhases}
        live == BagToSet(bag) \ dead
        n == BagCardinality([s \in live |-> bag[s]])
    IN  [s \in dead |-> bag[s]] (+) Copies(Sender("killed", 0), n)

Move(bag, from, to) == (bag (-) SetToBag({from})) (+) SetToBag({to})

SeqsUpTo(set, n) == UNION {[1 .. k -> set] : k \in 0 .. n}

Sleeping == pc \in {"settle", "measure"}
InTry == pc \in {"before", "servers", "settle", "measure",
                 "aggregate", "save", "kill", "rm"}

Raise ==
    /\ failure' = "error"
    /\ pc' = "stop"

\* nothing of a run has happened yet
RunIdle ==
    /\ exitCode = -1
    /\ failure = "none"
    /\ netState = "none"
    /\ now = 0
    /\ wake = 0
    /\ servers = "none"
    /\ senders = EmptyBag
    /\ traffic = 0
    /\ tx1 = << >> /\ tx2 = << >> /\ rx1 = << >> /\ rx2 = << >>
    /\ switch_throughput = << >>
    /\ snaps = << >>
    /\ aggState = "idle"
    /\ aggSeen = NotOpened
    /\ rttCsv = NoFile
    /\ cwndCsv = NoFile
    /\ switchesCsv = NoFile
    /\ teardown = {}
    /\ flows = << >>

NoSweep == [phase |-> "none"]
NoClient == [phase |-> "none"]

\* the runner is started with any command line argparse accepts
InitRun ==
    /\ args \in [topo : TopoNames, hosts : HostCounts,
                 duration : Durations, bw : Bandwidths] \cup {EndToEndScenario}
    /\ pc = "load"
    /\ links = << >>
    /\ rawFile = NoFile
    /\ sweep = NoSweep
    /\ client = NoClient
    /\ RunIdle

\* helper_quic.load_topology: an exception here is not caught by main
LoadTopology ==
    /\ pc = "load"
    /\ IF ConstructOk(args.topo)
       THEN /\ links' = Build(args.topo, args.hosts)
            /\ pc' = "net"
            /\ UNCHANGED exitCode
       ELSE /\ pc' = "exited"
            /\ exitCode' = 1
            /\ UNCHANGED links
    /\ UNCHANGED <<args, failure, netState, now, wake, servers, senders, traffic,
                   tx1, tx2, rx1, rx2, switch_throughput, snaps, rawFile,
                   aggState, aggSeen, rttCsv, cwndCsv, switchesCsv, teardown, sweep, flows, client>>

\* Mininet(topo=...), net.start(), topo.switch_interface(net), net.get(h_i)
NetStart ==
    /\ pc = "net"
    /\ netState' = "started"
    /\ pc' = "before"
    /\ UNCHANGED <<args, exitCode, failure, links, now, wake, servers, senders,
                   traffic, tx1, tx2, rx1, rx2, switch_throughput, snaps, rawFile,
                   aggState, aggSeen, rttCsv, cwndCsv, switchesCsv, teardown, sweep, flows, client>>

\* the emulation platform fails to bring the network up: uncaught, exit status 1
NetStartFails ==
    /\ pc = "net"
    /\ pc' = "exited"
    /\ exitCode' = 1
    /\ UNCHANGED <<args, failure, links, netState, now, wake, servers, senders,
                   traffic, tx1, tx2, rx1, rx2, switch_throughput, snaps, rawFile,
                   aggState, aggSeen, rttCsv, cwndCsv, switchesCsv, teardown, sweep, flows, client>>

\* run_quic_experiments, lines 125-137: tx1 and rx1
SnapshotBefore ==
    /\ pc = "before"
    /\ LET txl == SwitchInterface(args.topo)
           rxl == OtherInterfaces(args.topo)
       IN  IF AllReadable(links, txl) /\ AllReadable(links, rxl)
           THEN /\ tx1' = [i \in 1 .. Len(txl) |-> ReadCounter(txl[i], traffic)]
                /\ rx1' = [i \in 1 .. Len(rxl) |-> ReadCounter(rxl[i], traffic)]
                /\ snaps' = Append(snaps, [which |-> "before", time |-> now,
                                           launched |-> BagCardinality(senders),
                                           phases |-> Phases(senders)])
                /\ pc' = "servers"
                /\ UNCHANGED failure
           ELSE /\ Raise
                /\ UNCHANGED <<tx1, rx1, snaps>>
    /\ UNCHANGED <<args, exitCode, links, netState, now, wake, servers, senders,
                   traffic, tx2, rx2, switch_throughput, rawFile,
                   aggState, aggSeen, rttCsv, cwndCsv, switchesCsv, teardown, sweep, flows, client>>

\* lines 139-163: certificates, one quic_server per destination host, sleep(2)
StartServers ==
    /\ pc = "servers"
    /\ servers' = IF NumDests(args.hosts) > 0 THEN "running" ELSE "none"
    /\ wake' = now + SettleDelay
    /\ pc' = "settle"
    /\ UNCHANGED <<args, exitCode, failure, links, netState, now, senders,
                   traffic, tx1, tx2, rx1, rx2, switch_throughput, snaps, rawFile,
                   aggState, aggSeen, rttCsv, cwndCsv, switchesCsv, teardown, sweep, flows, client>>

\* lines 166-202: per_flow_rate, one quic_client per source host launched in
\* the background, then sleep(duration + 4).  Each client needs some seconds
\* (interpreter start, handshake) before its send loop starts.
StartClients ==
    /\ pc = "settle"
    /\ now >= wake
    /\ IF NumSources(args.hosts) = 0
       THEN /\ Raise
            /\ UNCHANGED <<senders, wake, flows>>
       ELSE \E slow \in SeqsUpTo(Latencies \ {0}, Min(MaxSlow, NumSources(args.hosts))) :
                /\ senders' = SeqToBag([i \in 1 .. Len(slow) |-> now + slow[i]])
                              (+) Copies(Sender("starting", now),
                                         NumSources(args.hosts) - Len(slow))
                /\ flows' = ClientFlows(args.hosts, args.bw)
                /\ wake' = now + args.duration + DrainBuffer
                /\ pc' = "measure"
                /\ UNCHANGED failure
    /\ UNCHANGED <<args, exitCode, links, netState, now, servers,
                   traffic, tx1, tx2, rx1, rx2, switch_throughput, snaps, rawFile,
                   aggState, aggSeen, rttCsv, cwndCsv, switchesCsv, teardown, sweep, client>>

ThroughputRows(list, before, after, duration) ==
    [i \in 1 .. Len(list) |-> <<list[i], Throughput(before[i], after[i], duration)>>]

\* lines 204-221: tx2, rx2 and the throughput of every monitored interface
SnapshotAfter ==
    /\ pc = "measure"
    /\ now >= wake
    /\ LET txl == SwitchInterface(args.topo)
           rxl == OtherInterfaces(args.topo)
           t2 == [i \in 1 .. Len(txl) |-> ReadCounter(txl[i], traffic)]
           r2 == [i \in 1 .. Len(rxl) |-> ReadCounter(rxl[i], traffic)]
       IN  /\ snaps' = Append(snaps, [which |-> "after", time |-> now,
                                      launched |-> BagCardinality(senders),
                                      phases |-> Phases(senders)])
           /\ IF args.duration = 0 /\ Len(txl) + Len(rxl) > 0
              THEN /\ Raise
                   /\ UNCHANGED <<tx2, rx2, switch_throughput>>
              ELSE /\ tx2' = t2
                   /\ rx2' = r2
                   /\ switch_throughput' =
                          ThroughputRows(txl, tx1, t2, args.duration)
                          \o ThroughputRows(rxl, rx1, r2, args.duration)
                   /\ pc' = "aggregate"
                   /\ UNCHANGED failure
    /\ UNCHANGED <<args, exitCode, links, netState, now, wake, servers, senders,
                   traffic, tx1, rx1, rawFile,
                   aggState, aggSeen, rttCsv, cwndCsv, switchesCsv, teardown, sweep, flows, client>>

\* lines 61-63: open() or a read fails with an IOError: warning and return
AggregateUnreadable ==
    [status |-> "skipped", write |-> FALSE, rtt |-> << >>, cwnd |-> << >>]

\* line 225: aggregate_metrics(raw_metrics_file, output_dir, duration)
Aggregate ==
    /\ pc = "aggregate"
    /\ \E ties \in Ties(rawFile), readable \in BOOLEAN :
       LET res == IF readable \/ ~rawFile.exists
                  THEN AggregateMetrics(rawFile, ties)
                  ELSE AggregateUnreadable
       IN  /\ aggState' = res.status
           /\ aggSeen' = [opened |-> TRUE, phases |-> Phases(senders), late |-> FALSE]
           /\ rttCsv' = IF res.write THEN File(res.rtt) ELSE rttCsv
           /\ cwndCsv' = IF res.write THEN File(res.cwnd) ELSE cwndCsv
           /\ IF res.status = "raised"
              THEN Raise
              ELSE pc' = "save" /\ UNCHANGED failure
    /\ UNCHANGED <<args, exitCode, links, netState, now, wake, servers, senders,
                   traffic, tx1, tx2, rx1, rx2, switch_throughput, snaps, rawFile,
                   switchesCsv, teardown, sweep, flows, client>>

\* save_switch_throughput: one row per entry of switch_throughput
SaveSwitchThroughput ==
    /\ pc = "save"
    /\ \E up \in BOOLEAN :
          switchesCsv' = File(
              [i \in 1 .. Len(switch_throughput) |->
                  <<switch_throughput[i][1],
                    Round2(switch_throughput[i][2][1] * 100,
                           switch_throughput[i][2][2], up),
                    args.duration>>])
    /\ pc' = "kill"
    /\ UNCHANGED <<args, exitCode, failure, links, netState, now, wake, servers,
                   senders, traffic, tx1, tx2, rx1, rx2, switch_throughput, snaps,
                   rawFile, aggState, aggSeen, rttCsv, cwndCsv, teardown, sweep, flows, client>>

\* lines 230-237: pkill -f quic_server.py, pkill -f quic_client.py
KillProcesses ==
    /\ pc = "kill"
    /\ servers' = IF servers = "running" THEN "killed" ELSE servers
    /\ senders' = KillAll(senders)
    /\ teardown' = teardown \cup {"pkill_server", "pkill_client"}
    /\ pc' = "rm"
    /\ UNCHANGED <<args, exitCode, failure, links, netState, now, wake,
                   traffic, tx1, tx2, rx1, rx2, switch_throughput, snaps,
                   rawFile, aggState, aggSeen, rttCsv, cwndCsv, switchesCsv, sweep, flows, client>>

\* lines 239-245: os.remove(raw_metrics_file), errors ignored; return
RemoveRawMetrics ==
    /\ pc = "rm"
    /\ rawFile' = NoFile
    /\ teardown' = teardown \cup {"rm_raw"}
    /\ pc' = "stop"
    /\ UNCHANGED <<args, exitCode, failure, links, netState, now, wake, servers,
                   senders, traffic, tx1, tx2, rx1, rx2, switch_throughput, snaps,
                   aggState, aggSeen, rttCsv, cwndCsv, switchesCsv, sweep, flows, client>>

\* main, lines 182-186: net.stop().  Whether the platform takes the hosts'
\* background processes down with the hosts is its own business.
NetStop ==
    /\ pc = "stop"
    /\ netState' = "stopped"
    /\ teardown' = teardown \cup {"net_stop"}
    /\ pc' = "exited"
    /\ exitCode' = 0
    /\ \E reaped \in BOOLEAN :
          IF reaped
          THEN /\ senders' = KillAll(senders)
               /\ servers' = IF servers = "running" THEN "killed" ELSE servers
          ELSE UNCHANGED <<senders, servers>>
    /\ UNCHANGED <<args, failure, links, now, wake,
                   traffic, tx1, tx2, rx1, rx2, switch_throughput, snaps,
                   rawFile, aggState, aggSeen, rttCsv, cwndCsv, switchesCsv, sweep, flows, client>>

\* Ctrl-C while main is inside its try block: except KeyboardInterrupt
Interrupt ==
    /\ InTry
    /\ failure' = "interrupt"
    /\ pc' = "stop"
    /\ UNCHANGED <<args, exitCode, links, netState, now, wake, servers, senders,
                   traffic, tx1, tx2, rx1, rx2, switch_throughput, snaps, rawFile,
                   aggState, aggSeen, rttCsv, cwndCsv, switchesCsv, teardown, sweep, flows, client>>

\* quic_client: connected, send loop entered (start_time taken)
SenderBegin ==
    /\ \E s \in BagToSet(senders) :
          /\ s.phase = "starting"
          /\ s.at <= now
          /\ senders' = Move(senders, s, Sender("sending", now + args.duration))
    /\ UNCHANGED <<args, pc, exitCode, failure, links, netState, now, wake, servers,
                   traffic, tx1, tx2, rx1, rx2, switch_throughput, snaps, rawFile,
                   aggState, aggSeen, rttCsv, cwndCsv, switchesCsv, teardown, sweep, flows, client>>

\* quic_client, lines 125-151 and 194-200: the loop has ended; the buffer is
\* appended to the shared file, the stream is closed and the process exits
\* (after the write nothing the process does touches shared state).  The
\* late sample is followed only for the sender that creates the file.
SenderWrite ==
    /\ \E s \in BagToSet(senders) :
          /\ s.phase = "sending"
          /\ s.at <= now
          /\ senders' = Move(senders, s, Sender("exited", 0))
    /\ \E late \in (IF rawFile.exists THEN {FALSE} ELSE BOOLEAN) :
       LET buf == MetricsBuffer(args.duration, late)
       IN  IF buf # << >>
           THEN /\ rawFile' = AppendBuffer(rawFile, buf)
                /\ aggSeen' = [aggSeen EXCEPT !.late = aggSeen.opened]
           ELSE UNCHANGED <<rawFile, aggSeen>>
    /\ UNCHANGED <<args, pc, exitCode, failure, links, netState, now, wake, servers,
                   traffic, tx1, tx2, rx1, rx2, switch_throughput, snaps,
                   aggState, rttCsv, cwndCsv, switchesCsv, teardown, sweep, flows, client>>

\* a failing client taking the orchestrator down with it
SenderFailsAbortsRun ==
    /\ CountIn(senders, "failed") < MaxFailed
    /\ \E s \in BagToSet(senders) :
          /\ s.phase \in LivePhases
          /\ senders' = Move(senders, s, Sender("failed", 0))
    /\ Raise
    /\ UNCHANGED <<args, exitCode, links, netState, now, wake, servers,
                   traffic, tx1, tx2, rx1, rx2, switch_throughput, snaps, rawFile,
                   aggState, aggSeen, rttCsv, cwndCsv, switchesCsv, teardown, sweep, flows, client>>

\* quic_client, lines 229-250: the connection is not established, or breaks,
\* or the process is terminated: the client exits without writing its buffer.
\* Its shell job was started with "&"; the orchestrator never looks at it.
SenderFails ==
    /\ CountIn(senders, "failed") < MaxFailed
    /\ \E s \in BagToSet(senders) :
          /\ s.phase \in LivePhases
          /\ s.at <= now \/ s.phase = "sending"
          /\ senders' = Move(senders, s, Sender("failed", 0))
    /\ UNCHANGED <<args, pc, exitCode, failure, links, netState, now, wake, servers,
                   traffic, tx1, tx2, rx1, rx2, switch_throughput, snaps, rawFile,
                   aggState, aggSeen, rttCsv, cwndCsv, switchesCsv, teardown, sweep, flows, client>>

\* one second passes: nothing that is due now is left undone
Due(s) == s.phase \in {"starting", "sending"} /\ s.at <= now
Pending(s) == s.phase \in {"starting", "sending"}

Tick ==
    /\ \/ Sleeping /\ wake > now
       \/ pc = "exited"
    /\ \A s \in BagToSet(senders) : ~Due(s)
    /\ Sleeping \/ \E s \in BagToSet(senders) : Pending(s)
    /\ now' = now + 1
    /\ traffic' = traffic + CountIn(senders, "sending")
    /\ UNCHANGED <<args, pc, exitCode, failure, links, netState, wake, servers,
                   senders, tx1, tx2, rx1, rx2, switch_throughput, snaps, rawFile,
                   aggState, aggSeen, rttCsv, cwndCsv, switchesCsv, teardown, sweep, flows, client>>

Next ==
    \/ LoadTopology \/ NetStart \/ NetStartFails
    \/ SnapshotBefore \/ StartServers \/ StartClients \/ SnapshotAfter
    \/ Aggregate \/ SaveSwitchThroughput \/ KillProcesses \/ RemoveRawMetrics
    \/ NetStop \/ Interrupt
    \/ SenderBegin \/ SenderWrite \/ SenderFails \/ Tick

Spec == InitRun /\ [][Next]_vars

-----------------------------------------------------------------------------
(* Topology construction on its own *)

runVars == <<exitCode, failure, netState, now, wake, servers, senders, traffic,
             tx1, tx2, rx1, rx2, switch_throughput, snaps, teardown, flows, client>>

InitTopo ==
    /\ args \in [topo : TopoNames, hosts : HostCounts, duration : {0}, bw : Bandwidths]
    /\ pc = "topo"
    /\ links = << >>
    /\ rawFile = NoFile
    /\ sweep = NoSweep
    /\ client = NoClient
    /\ RunIdle

\* Topo.__init__ calling the shape's build()
TopoBuild ==
    /\ pc = "topo"
    /\ links' = Build(args.topo, args.hosts)
    /\ pc' = "built"
    /\ UNCHANGED <<args, rawFile, aggState, aggSeen, rttCsv, cwndCsv, switchesCsv,
                   sweep, runVars>>

NextTopo == TopoBuild

SpecTopo == InitTopo /\ [][NextTopo]_vars

-----------------------------------------------------------------------------
(* aggregate_metrics on an arbitrary raw metrics file *)

InitAgg ==
    /\ args = NoArgs
    /\ pc = "agg_input"
    /\ links = << >>
    /\ rawFile \in {NoFile, File(<< >>)}
    /\ sweep = NoSweep
    /\ client = NoClient
    /\ RunIdle

\* some process appends a line to the raw metrics file
WriteLine ==
    /\ pc = "agg_input"
    /\ rawFile.exists
    /\ Len(rawFile.lines) < MaxLines
    /\ \E ln \in Lines : rawFile' = File(Append(rawFile.lines, ln))
    /\ UNCHANGED <<args, pc, links, aggState, aggSeen, rttCsv, cwndCsv, switchesCsv,
                   sweep, runVars>>

\* aggregate_metrics(raw_metrics_file, output_dir, duration)
RunAggregate ==
    /\ pc = "agg_input"
    /\ \E ties \in Ties(rawFile) :
       LET res == AggregateMetrics(rawFile, ties)
       IN  /\ aggState' = res.status
           /\ rttCsv' = IF res.write THEN File(res.rtt) ELSE rttCsv
           /\ cwndCsv' = IF res.write THEN File(res.cwnd) ELSE cwndCsv
    /\ pc' = "agg_done"
    /\ UNCHANGED <<args, links, rawFile, aggSeen, switchesCsv, sweep, runVars>>

NextAgg == WriteLine \/ RunAggregate

SpecAgg == InitAgg /\ [][NextAgg]_vars

-----------------------------------------------------------------------------
(* The parameter sweep: exp_parkinglot.py *)

BANDWIDTHS == <<10, 15, 20, 35>>
DELAYS == <<1, 2, 5, 10>>
LOSSES == <<0, 2, 5, 10>>

\* main runs run_varying_bandwidth, run_varying_delay, run_varying_loss
Dimensions == <<"bw_vary", "delay_vary", "loss_vary">>

ParamList(dim) ==
    CASE dim = 1 -> BANDWIDTHS
      [] dim = 2 -> DELAYS
      [] OTHER -> LOSSES

Points(dim) == 1 .. Len(ParamList(dim))

\* The result directory of a point: where its switches.csv and rtt.csv come
\* from.  "absent": no such file; "old": left by an earlier invocation of the
\* sweep (the directories are kept, makedirs(exist_ok=True)); "new": written
\* by the run of this invocation.
EmptyDir == [switches |-> "absent", rtt |-> "absent"]
StaleDir == [switches |-> "old", rtt |-> "old"]

\* How the runner process of one point ends, as the sweep sees it:
\*   "ok"        exit status 0, the run completed and wrote both files
\*   "no_rtt"    exit status 0, no raw metrics file, so only switches.csv
\*   "caught"    exit status 0, main caught an exception or Ctrl-C of the run
\*               before any result file was written
\*   "crash"     exit status 1 (uncaught exception, sys.exit(1))
\*   "interrupt" KeyboardInterrupt in the sweep while it waits for the runner
Outcomes == {"ok", "no_rtt", "caught", "crash", "interrupt"}

Wrote(outcome) ==
    CASE outcome = "ok" -> {"switches", "rtt"}
      [] outcome = "no_rtt" -> {"switches"}
      [] OTHER -> {}

DirAfter(dir, outcome) ==
    [switches |-> IF "switches" \in Wrote(outcome) THEN "new" ELSE dir.switches,
     rtt |-> IF "rtt" \in Wrote(outcome) THEN "new" ELSE dir.rtt]

\* run_experiment: True unless CalledProcessError or KeyboardInterrupt
RunExperiment(outcome) == outcome \in {"ok", "no_rtt", "caught"}

\* extract_results: None unless both files exist
ExtractResults(dir) == dir.switches # "absent" /\ dir.rtt # "absent"

SweepStart ==
    [phase |-> "main", dim |-> 1, idx |-> 1,
     dirs |-> [i \in Points(1) |-> EmptyDir],
     results |-> << >>, hist |-> << >>, summary |-> NoFile,
     interrupted |-> FALSE, orphan |-> FALSE, status |-> -1]

InitSweep ==
    /\ args = NoArgs
    /\ pc = "sweep"
    /\ links = << >>
    /\ rawFile = NoFile
    /\ sweep = SweepStart
    /\ client = NoClient
    /\ RunIdle

sweepRest == <<args, pc, links, rawFile, aggState, aggSeen, rttCsv, cwndCsv,
               switchesCsv, exitCode, failure, netState, now, wake, servers,
               senders, traffic, tx1, tx2, rx1, rx2, switch_throughput, snaps,
               teardown, flows, client>>

\* main, lines 246-268: the runner script must be there
StartSweep ==
    /\ sweep.phase = "main"
    /\ \E runnerExists \in BOOLEAN :
          sweep' = IF runnerExists
                   THEN [sweep EXCEPT !.phase = "start"]
                   ELSE [sweep EXCEPT !.phase = "aborted", !.status = 1]
    /\ UNCHANGED sweepRest

\* run_varying_bandwidth / _delay / _loss up to the loop: results = []
BeginDimension ==
    /\ sweep.phase = "start"
    /\ \E stale \in SUBSET Points(sweep.dim) :
          sweep' = [sweep EXCEPT
                       !.phase = "run",
                       !.idx = 1,
                       !.dirs = [i \in Points(sweep.dim) |->
                                    IF i \in stale THEN StaleDir ELSE EmptyDir],
                       !.results = << >>,
                       !.hist = << >>,
                       !.summary = NoFile]
    /\ UNCHANGED sweepRest

\* one pass of the loop body: run_experiment, then extract_results and
\* results.append when it returned True.  subprocess.run returns when the
\* runner has exited, except on KeyboardInterrupt: then the command it started
\* (sudo) is killed and run_experiment returns False, while the runner, which
\* got the same Ctrl-C, is still in its own handler and net.stop().
RunPoint ==
    /\ sweep.phase = "run"
    /\ \E outcome \in Outcomes, survives \in BOOLEAN :
          LET i == sweep.idx
              dir == DirAfter(sweep.dirs[i], outcome)
              row == [value |-> ParamList(sweep.dim)[i],
                      switches |-> dir.switches, rtt |-> dir.rtt]
              last == i = Len(ParamList(sweep.dim))
          IN  sweep' = [sweep EXCEPT
                           !.dirs[i] = dir,
                           !.hist = Append(@, outcome),
                           !.interrupted = @ \/ outcome = "interrupt",
                           !.orphan = @ \/ (outcome = "interrupt" /\ survives),
                           !.results = IF RunExperiment(outcome) /\ ExtractResults(dir)
                                       THEN Append(@, row) ELSE @,
                           !.idx = i + 1,
                           !.phase = IF last THEN "summary" ELSE "run"]
    /\ UNCHANGED sweepRest

\* the rows written last first
SaveSummaryReversed(results) ==
    File([k \in 1 .. Len(results) |-> results[Len(results) + 1 - k]])

\* open(summary_file, 'w'); writer.writerows(results)
SaveSummary(results) == File(results)

\* the summary file is opened for writing, rows are written if there are any;
\* then the next dimension, or the end of main
WriteSummary ==
    /\ sweep.phase = "summary"
    /\ sweep' = [sweep EXCEPT
                    !.summary = SaveSummary(sweep.results),
                    !.dim = IF sweep.dim < Len(Dimensions) THEN @ + 1 ELSE @,
                    !.phase = IF sweep.dim < Len(Dimensions) THEN "start" ELSE "done",
                    !.status = IF sweep.dim < Len(Dimensions) THEN @ ELSE 0]
    /\ UNCHANGED sweepRest

\* Ctrl-C while the sweep itself is executing (not waiting in run_experiment):
\* main, lines 290-292
InterruptSweep ==
    /\ sweep.phase \in {"start", "run", "summary"}
    /\ sweep' = [sweep EXCEPT !.phase = "aborted", !.status = 1]
    /\ UNCHANGED sweepRest

\* an interrupted runner finishes net.stop() and its process ends
RunnerExits ==
    /\ sweep.orphan
    /\ sweep' = [sweep EXCEPT !.orphan = FALSE]
    /\ UNCHANGED sweepRest

NextSweep ==
    \/ StartSweep \/ BeginDimension \/ RunPoint \/ WriteSummary \/ InterruptSweep
    \/ RunnerExits

SpecSweep == InitSweep /\ [][NextSweep]_vars

-----------------------------------------------------------------------------
(* One sender: quic_client.send_data_with_metrics *)

\* resolution of the sender's clock: time.time() in sixtieths of a second
TicksPerSec == 60
DefaultRate == 15

ChunkSizes == {500000, 1000000}
ClientDurations == 0 .. MaxClientDuration
ClientBandwidths == {-8, 0, 8, 16}
SourceCounts == {1, 2}

\* --rate: absent (None), or the quotient the orchestrator passes
NoRate == [given |-> FALSE, num |-> 0, den |-> 1]
Rate(q) == [given |-> TRUE, num |-> q[1], den |-> q[2]]
ClientRates ==
    {NoRate} \cup {Rate(PerFlowRate(bw, n)) : bw \in ClientBandwidths, n \in SourceCounts}

\* time the chunk took, and by how much asyncio.sleep overshoots, in ticks
SendTimes == {1, 20, 70}
Oversleeps == {0, 7}

Max(a, b) == IF a >= b THEN a ELSE b
Normal(q) == IF q[2] < 0 THEN <<-q[1], -q[2]>> ELSE q

\* if target_rate_mbps:
Truthy(rate) == rate.given /\ rate.num # 0

\* (target_rate_mbps * 1_000_000) / 8, or (15 * 1_000_000) / 8
TargetBytesPerSec(rate) ==
    IF Truthy(rate)
    THEN <<rate.num * Mega, rate.den * BitsPerByte>>
    ELSE <<DefaultRate * Mega, BitsPerByte>>

\* the rate taken as bytes per second without the division by 8
SleepTimeInBits(chunk_size, rate) ==
    IF Truthy(rate)
    THEN Normal(<<chunk_size * rate.den, rate.num * Mega>>)
    ELSE Normal(<<chunk_size, DefaultRate * Mega>>)

\* sleep_time = chunk_size / target_bytes_per_sec, in seconds
SleepTime(chunk_size, rate) ==
    LET t == TargetBytesPerSec(rate)
    IN  Normal(<<chunk_size * t[2], t[1]>>)

\* the same in ticks (the inputs drawn give whole numbers of ticks)
InTicks(q) == (q[1] * TicksPerSec) \div q[2]

\* the pacing sleep without the clamp
SleepDurationSigned(sleep_time, elapsed) == sleep_time - elapsed

\* sleep_duration = max(0, sleep_time - elapsed)
SleepDuration(sleep_time, elapsed) == Max(0, sleep_time - elapsed)

\* a sample with every chunk
SampleDueEveryChunk(current_time, last_log_time) == TRUE

\* if current_time - last_log_time >= 1.0
SampleDue(current_time, last_log_time) == current_time - last_log_time >= TicksPerSec

\* elapsed = int(current_time - start_time), start_time being tick 0
Elapsed(current_time) == current_time \div TicksPerSec

ClientStart(rate, chunk_size, duration) ==
    [phase |-> "start", rate |-> rate, chunk_size |-> chunk_size,
     duration |-> duration, sleep_time |-> <<0, 1>>,
     clock |-> 0, current_time |-> 0, send_start |-> 0, last_log_time |-> 0,
     metrics_buffer |-> << >>, spent |-> 0, slept |-> 0, paced |-> FALSE,
     overran |-> FALSE,
     events |-> << >>]

InitClient ==
    /\ args = NoArgs
    /\ pc = "client"
    /\ links = << >>
    /\ rawFile = NoFile
    /\ sweep = NoSweep
    /\ client \in {ClientStart(r, c, d) : r \in ClientRates, c \in ChunkSizes,
                       d \in ClientDurations}
    /\ RunIdle

clientRest == <<args, pc, links, rawFile, aggState, aggSeen, rttCsv, cwndCsv,
                switchesCsv, exitCode, failure, netState, now, wake, servers,
                senders, traffic, tx1, tx2, rx1, rx2, switch_throughput, snaps,
                teardown, flows, sweep>>

\* lines 44-66: start_time, end_time, sleep_time, last_log_time
Pacing ==
    /\ client.phase = "start"
    /\ client' = [client EXCEPT
                     !.sleep_time = SleepTime(client.chunk_size, client.rate),
                     !.phase = "top"]
    /\ UNCHANGED clientRest

\* lines 70-72: while time.time() < end_time: current_time, send_start
LoopTop ==
    /\ client.phase = "top"
    /\ client' = IF client.clock < client.duration * TicksPerSec
                 THEN [client EXCEPT !.current_time = client.clock,
                                     !.send_start = client.clock,
                                     !.phase = "send"]
                 ELSE [client EXCEPT !.phase = "flush"]
    /\ UNCHANGED clientRest

\* lines 74-118: the chunk is sent, and a sample is buffered if one is due
SendChunk ==
    /\ client.phase = "send"
    /\ \E d \in SendTimes :
          client' = IF SampleDue(client.current_time, client.last_log_time)
                    THEN [client EXCEPT
                             !.clock = @ + d,
                             !.metrics_buffer =
                                 Append(@, Rec({"time", "rtt_ms"},
                                               Elapsed(client.current_time),
                                               SampleRtt(Elapsed(client.current_time)), 0)),
                             !.last_log_time = client.current_time,
                             !.phase = "pace"]
                    ELSE [client EXCEPT !.clock = @ + d, !.phase = "pace"]
    /\ UNCHANGED clientRest

\* lines 120-123: elapsed, sleep_duration, await asyncio.sleep(sleep_duration)
Pace ==
    /\ client.phase = "pace"
    /\ \E over \in Oversleeps :
          LET elapsed == client.clock - client.send_start
              sleep_duration == SleepDuration(InTicks(client.sleep_time), elapsed)
          IN  client' = [client EXCEPT
                            !.spent = elapsed,
                            !.slept = sleep_duration,
                            !.paced = TRUE,
                            !.overran = @ \/ elapsed > InTicks(client.sleep_time),
                            !.clock = @ + Max(0, sleep_duration) + over,
                            !.phase = "top"]
    /\ UNCHANGED clientRest

\* lines 125-133: the batch write, if there is anything to write
WriteBuffer ==
    /\ client.phase = "flush"
    /\ client' = [client EXCEPT
                     !.events = IF client.metrics_buffer # << >>
                                THEN Append(@, "write") ELSE @,
                     !.phase = "close"]
    /\ UNCHANGED clientRest

\* lines 135-151: send_stream_data(stream_id, b"", end_stream=True); transmit
EndStream ==
    /\ client.phase = "close"
    /\ client' = [client EXCEPT !.events = Append(@, "end_stream"),
                                !.phase = "done"]
    /\ UNCHANGED clientRest

NextClient ==
    \/ Pacing \/ LoopTop \/ SendChunk \/ Pace \/ WriteBuffer \/ EndStream

SpecClient == InitClient /\ [][NextClient]_vars

-----------------------------------------------------------------------------
(* Properties *)

RECURSIVE SumOver(_, _)
SumOver(set, q) ==
    IF set = {} THEN 0
    ELSE LET i == CHOOSE x \in set : TRUE
         IN  q[i] + SumOver(set \ {i}, q)

\* C1: the throughput reported for every monitored interface (transmit list,
\* then receive list) equals (after - before) * 8 / (1e6 * duration), with the
\* configured run duration as divisor, not the duration plus the drain buffer.
C1_ThroughputFormula ==
    switch_throughput # << >> =>
        LET txl == SwitchInterface(args.topo)
            rxl == OtherInterfaces(args.topo)
            per == Mega * args.duration
        IN  /\ Len(switch_throughput) = Len(txl) + Len(rxl)
            /\ \A i \in 1 .. Len(txl) :
                  LET row == switch_throughput[i]
                  IN  /\ row[1] = txl[i]
                      /\ row[2][2] # 0
                      /\ row[2][1] * per = (tx2[i] - tx1[i]) * BitsPerByte * row[2][2]
            /\ \A i \in 1 .. Len(rxl) :
                  LET row == switch_throughput[Len(txl) + i]
                  IN  /\ row[1] = rxl[i]
                      /\ row[2][2] # 0
                      /\ row[2][1] * per = (rx2[i] - rx1[i]) * BitsPerByte * row[2][2]

\* a run whose counters moved between the snapshots has computed its
\* throughput table, receive list included
C1_Witness ==
    /\ pc = "aggregate"
    /\ Len(switch_throughput) > Len(SwitchInterface(args.topo))
    /\ tx2[1] > tx1[1]
    /\ rx2[1] > rx1[1]

\* C2: the before snapshot is taken before any sender has started and the
\* after snapshot only after every sender launched in the run has stopped
\* sending, whatever the senders' start-up latencies are.
C2_SnapshotsOutsideActiveWindow ==
    \A k \in 1 .. Len(snaps) :
        /\ snaps[k].which = "before" => snaps[k].launched = 0
        /\ snaps[k].which = "after" =>
              snaps[k].phases \cap {"starting", "sending"} = {}

\* C3: when aggregation opens the raw metrics file every sender launched in
\* the run has finished its send loop and appended its buffer, and no sender
\* appends to the file afterwards.
C3_AggregationAfterAllFlushed ==
    aggSeen.opened =>
        /\ aggSeen.phases \subseteq {"exited"}
        /\ ~aggSeen.late

\* C4: when a step of a run after provisioning raised or was interrupted, the
\* run still ends with teardown executed: the receivers and senders it started
\* were signalled, the raw metrics file is gone and the topology is released.
C4_TeardownAfterFailure ==
    (pc = "exited" /\ failure # "none") =>
        /\ servers = "none" \/ "pkill_server" \in teardown
        /\ senders = EmptyBag \/ "pkill_client" \in teardown
        /\ ~rawFile.exists
        /\ netState = "stopped"

\* C10: with an odd host count nothing is provisioned: no network is
\* instantiated, no receiver or sender is started, no counter is read.
C10_OddHostCountRejected ==
    args.hosts % 2 = 1 =>
        /\ netState = "none"
        /\ servers = "none"
        /\ senders = EmptyBag
        /\ snaps = << >>

\* rtt_ms samples of second t in a file: the lines that are objects with a
\* time of t and an rtt_ms
SampleIdx(lines, t) ==
    {i \in 1 .. Len(lines) :
        /\ lines[i].kind = "rec"
        /\ {"time", "rtt_ms"} \subseteq lines[i].has
        /\ lines[i].time = t}
SampleSum(lines, t) == SumOver(SampleIdx(lines, t), [i \in 1 .. Len(lines) |-> lines[i].rtt])
RowsAt(rows, t) == {i \in 1 .. Len(rows) : rows[i][1] = t}
TimesIn(lines) == {lines[i].time : i \in 1 .. Len(lines)} \cup Seconds

WellFormed(ln) == ln.kind = "rec" /\ ln.has = {"time", "rtt_ms", "cwnd_bytes"}
WithoutMalformed(lines) == SelectSeq(lines, WellFormed)

\* C8: whatever the malformed lines of a file are, aggregation ends normally
\* and writes what it writes for the file with the malformed lines removed.
C8_MalformedLinesSkipped ==
    (pc = "agg_done" /\ rawFile.exists) =>
        /\ aggState = "done"
        /\ \E ties \in Ties(rawFile) :
              LET clean == AggregateMetrics(File(WithoutMalformed(rawFile.lines)), ties)
              IN  /\ rttCsv = File(clean.rtt)
                  /\ cwndCsv = File(clean.cwnd)

\* C9: the source and destination groups differ in size by at most 1, and for
\* the parking-lot and multi-bottleneck shapes so do the two destination
\* sub-groups attached to the two terminal switches.
C9_GroupsBalanced ==
    pc = "built" =>
        /\ Abs(Cardinality(SourceGroup(links)) - Cardinality(DestGroup(links))) <= 1
        /\ TerminalSwitches(args.topo) # << >> =>
              Abs(Cardinality(HostsOn(links, TerminalSwitches(args.topo)[1]))
                  - Cardinality(HostsOn(links, TerminalSwitches(args.topo)[2]))) <= 1

C6_InterruptAbortsSweep ==
    [][sweep.interrupted => Len(sweep'.hist) <= Len(sweep.hist)]_vars

\* C11: the run of the end-to-end scenario (dumbbell, bw=10, hosts=4,
\* duration=5), left alone by the user on a platform that brings the network
\* up, completes and writes a switches.csv with exactly one data row, the row
\* of the monitored interface of the bottleneck link.
C11_ScenarioWritesOneRow ==
    (args = EndToEndScenario /\ pc = "exited" /\ exitCode = 0
         /\ failure # "interrupt") =>
        /\ failure = "none"
        /\ switchesCsv.exists
        /\ Len(switchesCsv.lines) = 1
        /\ switchesCsv.lines[1][1] = SwitchInterface("dumbbell")[1]

\* seconds that have a row in a series
RowSeconds(rows) == {rows[i][1] : i \in 1 .. Len(rows)}
\* seconds of a file with a record that holds field
SecondsWith(lines, field) ==
    {lines[i].time : i \in {j \in 1 .. Len(lines) :
                              /\ lines[j].kind = "rec"
                              /\ "time" \in lines[j].has
                              /\ field \in lines[j].has}}

\* C12: after a run of duration D, whatever the number of flows, rtt.csv and
\* cwnd.csv each hold at most D data rows, one per distinct elapsed second
\* that has at least one sample.
C12_AtMostDurationRows ==
    (pc \in {"save", "kill", "rm"} /\ aggState = "done") =>
        /\ rttCsv.exists /\ cwndCsv.exists
        /\ Len(rttCsv.lines) <= args.duration
        /\ Len(cwndCsv.lines) <= args.duration
        /\ Cardinality(RowSeconds(rttCsv.lines)) = Len(rttCsv.lines)
        /\ Cardinality(RowSeconds(cwndCsv.lines)) = Len(cwndCsv.lines)
        /\ RowSeconds(rttCsv.lines) = SecondsWith(rawFile.lines, "rtt_ms")
        /\ RowSeconds(cwndCsv.lines) = SecondsWith(rawFile.lines, "cwnd_bytes")

\* several flows have written their samples and aggregation has put them
\* into one row per sampled second, as many rows as the run has seconds
C12_Witness ==
    /\ pc = "save"
    /\ aggState = "done"
    /\ Len(rttCsv.lines) >= 1
    /\ Len(rttCsv.lines) = args.duration
    /\ Len(rawFile.lines) > Len(rttCsv.lines)

\* C13: whatever duration the command line passes into the run, duration is
\* positive when the after counters are read and the throughput is computed
\* (the division by duration never divides by zero).
C13_DurationPositiveAtThroughput ==
    \A k \in 1 .. Len(snaps) :
        snaps[k].which = "after" =>
            /\ args.duration > 0
            /\ failure # "error"

\* lines of a file that carry the time t
LinesAt(lines, t) == {i \in 1 .. Len(lines) : lines[i].time = t}

\* C14: for every run duration, the shared file holds the sample buffer of
\* every sender that has completed its send loop exactly once (one line per
\* sampled second and completed sender) and nothing of a sender whose loop is
\* still running or has not started.
C14_BufferAppendedOnceAfterLoop ==
    (pc \in {"measure", "aggregate", "save", "kill", "rm"}) =>
        LET done == CountIn(senders, "exited")
        IN  /\ \A t \in 1 .. args.duration - 1 :
                  Cardinality(LinesAt(rawFile.lines, t)) = done
            /\ Cardinality(LinesAt(rawFile.lines, args.duration)) <= 1
            /\ \A i \in 1 .. Len(rawFile.lines) :
                  rawFile.lines[i].time \in 1 .. args.duration
            /\ done = 0 => ~rawFile.exists

\* two senders have completed and written while another one is still in its
\* send loop
C14_Witness ==
    /\ pc = "measure"
    /\ CountIn(senders, "exited") >= 2
    /\ CountIn(senders, "sending") >= 1
    /\ Len(rawFile.lines) >= 2

\* C15: once the senders of a run are started there is exactly one per source
\* host, sender i runs on source i and sends to destination i, no destination
\* gets more than one flow, and every sender's rate is bandwidth divided by
\* the number of source hosts.
C15_OneSenderPerSource ==
    (pc \in {"measure", "aggregate", "save", "kill", "rm"}) =>
        LET n == Len(flows)
            sources == SourceGroup(links)
            dests == DestGroup(links)
            used == {flows[i].dst : i \in 1 .. n}
        IN  /\ n = Cardinality(sources)
            /\ n = BagCardinality(senders)
            /\ {flows[i].src : i \in 1 .. n} = sources
            /\ used \subseteq dests
            /\ Cardinality(used) = n
            /\ \A i \in 1 .. n :
                  /\ flows[i].src = H(i - 1)
                  /\ flows[i].dst = H(n + i - 1)
                  /\ flows[i].rate[2] # 0
                  /\ flows[i].rate[1] * n = args.bw * flows[i].rate[2]

\* the senders of a run with an odd host count have been started
C15_Witness ==
    /\ pc = "measure"
    /\ Len(flows) >= 2
    /\ args.hosts % 2 = 1

PositionIn(list, value) == CHOOSE i \in 1 .. Len(list) : list[i] = value

\* C17: the rows of a dimension's summary are in the order of the parameter
\* list of the dimension: a row that comes later in the file belongs to a
\* point that comes later in the list.
C17_SummaryInListOrder ==
    (sweep.phase # "none" /\ sweep.summary.exists) =>
        LET list == ParamList(IF sweep.phase = "done" THEN sweep.dim
                              ELSE sweep.dim - 1)
            rows == sweep.summary.lines
        IN  /\ \A k \in 1 .. Len(rows) : \E i \in 1 .. Len(list) : list[i] = rows[k].value
            /\ \A k, l \in 1 .. Len(rows) :
                  k < l => PositionIn(list, rows[k].value) < PositionIn(list, rows[l].value)

\* a summary with three rows that leaves out a point in the middle of the list
C17_Witness ==
    /\ sweep.phase \in {"start", "done"}
    /\ sweep.summary.exists
    /\ Len(sweep.summary.lines) = 3
    /\ sweep.hist[2] = "crash"

\* C18: a sender that fails to connect or ends early does not abort the run:
\* unless the user interrupts it, a run with a positive duration in which a
\* sender failed still takes the closing snapshot, aggregates what the other
\* senders wrote, writes the throughput table with a row per monitored
\* interface and performs every teardown step.
C18_FailedSenderDoesNotAbortRun ==
    (CountIn(senders, "failed") >= 1 /\ args.duration > 0) =>
        /\ failure # "error"
        /\ pc \in {"save", "kill", "rm", "stop", "exited"} /\ failure = "none" =>
              /\ \E k \in 1 .. Len(snaps) : snaps[k].which = "after"
              /\ aggState \in {"done", "skipped"}
              /\ aggState = "done" => rttCsv.exists /\ cwndCsv.exists
        /\ pc \in {"kill", "rm", "stop", "exited"} /\ failure = "none" =>
              /\ switchesCsv.exists
              /\ Len(switchesCsv.lines) = Len(SwitchInterface(args.topo))
                                          + Len(OtherInterfaces(args.topo))
        /\ pc = "exited" /\ failure = "none" =>
              {"pkill_server", "pkill_client", "rm_raw", "net_stop"} \subseteq teardown

\* a complete run in which one sender failed and another one wrote its samples
C18_Witness ==
    /\ pc = "exited"
    /\ failure = "none"
    /\ CountIn(senders, "failed") >= 1
    /\ CountIn(senders, "exited") >= 1
    /\ rttCsv.exists
    /\ Len(rttCsv.lines) >= 1

\* the interfaces a shape monitors, transmit and receive lists together
Monitored(topo) ==
    {SwitchInterface(topo)[i] : i \in 1 .. Len(SwitchInterface(topo))}
    \cup {OtherInterfaces(topo)[i] : i \in 1 .. Len(OtherInterfaces(topo))}

\* C19: in the topology built for an even host count of at least 4, every
\* monitored interface name is the name of an existing interface, and the
\* link attached there joins two switches.
C19_MonitoredInterfacesExist ==
    (pc = "built" /\ args.hosts >= 4 /\ args.hosts % 2 = 0) =>
        \A ifc \in Monitored(args.topo) :
            /\ IfaceExists(links, ifc)
            /\ IsInterSwitch(links[LinkIndex(links, ifc)])

\* number of inter-switch links between the source switch s1 and a switch
RECURSIVE Within(_, _)
Within(L, d) ==
    IF d = 0 THEN {Sw(1)}
    ELSE LET prev == Within(L, d - 1)
         IN  prev \cup {L[k][2] : k \in {j \in InterSwitchLinks(L) : L[j][1] \in prev}}
                  \cup {L[k][1] : k \in {j \in InterSwitchLinks(L) : L[j][2] \in prev}}
Dist(L, sw) == CHOOSE d \in 0 .. Len(L) : sw \in Within(L, d) /\ \A e \in 0 .. d - 1 : sw \notin Within(L, e)
Upstream(L, k) == IF Dist(L, L[k][1]) <= Dist(L, L[k][2]) THEN L[k][1] ELSE L[k][2]

MonitoredLinks(L, topo) == {LinkIndex(L, ifc) : ifc \in Monitored(topo)}

\* C20: with the default host count the monitored interfaces exist and lie on
\* inter-switch links: on the one such link of the dumbbell, on both of the
\* parking lot, on at least five different ones of the multi-bottleneck
\* shape; and every interface of the transmit list is the source-side
\* endpoint of its link.
C20_MonitoredOnBottlenecks ==
    (pc = "built" /\ args.hosts = DefaultHosts) =>
        /\ \A ifc \in Monitored(args.topo) : IfaceExists(links, ifc)
        /\ MonitoredLinks(links, args.topo) \subseteq InterSwitchLinks(links)
        /\ args.topo \in {"dumbbell", "parkinglot"} =>
              MonitoredLinks(links, args.topo) = InterSwitchLinks(links)
        /\ args.topo = "multibottleneck" =>
              Cardinality(MonitoredLinks(links, args.topo)) >= 5
        /\ \A i \in 1 .. Len(SwitchInterface(args.topo)) :
              LET ifc == SwitchInterface(args.topo)[i]
              IN  ifc.sw = Upstream(links, LinkIndex(links, ifc))

\* C21: when the raw metrics file is missing or cannot be read at the start
\* of aggregation, aggregation is skipped without an error: neither rtt.csv
\* nor cwnd.csv is written, the throughput table is still written and the
\* teardown steps still run.
C21_MissingFileSkipsAggregation ==
    /\ (aggSeen.opened /\ ~rawFile.exists /\ "rm_raw" \notin teardown) =>
           aggState = "skipped" /\ failure # "error"
    /\ (aggState = "skipped") =>
        /\ failure # "error"
        /\ ~rttCsv.exists /\ ~cwndCsv.exists
        /\ pc \in {"save", "kill", "rm", "stop", "exited"}
        /\ pc \in {"kill", "rm", "stop", "exited"} /\ failure = "none" =>
              /\ switchesCsv.exists
              /\ Len(switchesCsv.lines) = Len(switch_throughput)
        /\ pc = "exited" /\ failure = "none" =>
              {"pkill_server", "pkill_client", "rm_raw", "net_stop"} \subseteq teardown

\* a complete run whose aggregation found no raw metrics file
C21_Witness ==
    /\ pc = "exited"
    /\ failure = "none"
    /\ aggState = "skipped"
    /\ switchesCsv.exists
    /\ Len(switchesCsv.lines) >= 1

\* the monitored interfaces the built topology does not have
MissingInterfaces == {ifc \in Monitored(args.topo) : ~IfaceExists(links, ifc)}

\* C22: in a run whose monitored lists name an interface that does not exist
\* the counter read fails with an error instead of yielding a value: the run
\* never gets past the first snapshot, no counter value and no throughput is
\* recorded for any interface, and no switches.csv is written from which a
\* summary could report a throughput for the missing interface.
C22_MissingInterfaceFailsLoudly ==
    (links # << >> /\ MissingInterfaces # {}) =>
        /\ pc \in {"net", "before", "stop", "exited"}
        /\ tx1 = << >> /\ rx1 = << >> /\ tx2 = << >> /\ rx2 = << >>
        /\ switch_throughput = << >>
        /\ ~switchesCsv.exists
        /\ snaps = << >>
        /\ (pc \in {"stop", "exited"} /\ netState # "none" /\ failure # "interrupt") =>
              failure = "error"

\* a run that failed at the first counter read of a missing interface
C22_Witness ==
    /\ pc = "exited"
    /\ failure = "error"
    /\ MissingInterfaces # {}
    /\ links # << >>
    /\ "net_stop" \in teardown

RECURSIVE GCD(_, _)
GCD(a, b) == IF b = 0 THEN a ELSE GCD(b, a % b)
Reduced(q) == LET g == GCD(Abs(q[1]), Abs(q[2])) IN <<q[1] \div g, q[2] \div g>>
RatQuot(a, b) == Normal(<<a[1] * b[2], a[2] * b[1]>>)

\* C23: for a positive target rate the inter-chunk sleep is
\* chunk_size / (target_rate_mbps * 1e6 / 8) seconds; for 8 Mbps and a chunk
\* of 1,000,000 bytes that is exactly one second.
C23_InterChunkSleep ==
    (client.phase \notin {"none", "start"} /\ client.rate.given /\ client.rate.num > 0) =>
        LET mbps == <<client.rate.num, client.rate.den>>
            bytesPerSec == RatQuot(<<mbps[1] * Mega, mbps[2]>>, <<BitsPerByte, 1>>)
        IN  /\ Reduced(client.sleep_time)
                   = Reduced(RatQuot(<<client.chunk_size, 1>>, bytesPerSec))
            /\ (Reduced(mbps) = <<8, 1>> /\ client.chunk_size = 1000000) =>
                   /\ Reduced(client.sleep_time) = <<1, 1>>
                   /\ InTicks(client.sleep_time) = TicksPerSec

\* a sender at 8 Mbps with chunks of 1,000,000 bytes that has paced a chunk
C23_Witness ==
    /\ client.phase = "top"
    /\ client.paced
    /\ client.rate = Rate(<<8, 1>>)
    /\ client.chunk_size = 1000000
    /\ client.slept > 0

\* C24: the step that takes the 'before' snapshot is taken when the receivers
\* are running and the settle interval has elapsed, and when no sender has
\* been started yet.
C24_BeforeSnapshotAfterSettle ==
    [][(Len(snaps') = Len(snaps) + 1 /\ snaps'[Len(snaps')].which = "before")
          => /\ servers = "running"
             /\ now >= wake
             /\ senders = EmptyBag]_vars

\* C25: a sender that has left its loop and written its buffer closed its
\* stream first: the end-of-stream signal precedes the batched write.
C25_StreamClosedBeforeWrite ==
    \A i \in 1 .. Len(client.events) :
        client.events[i] = "write" =>
            \E j \in 1 .. i - 1 : client.events[j] = "end_stream"

\* C26: after every chunk the sender sleeps max(0, inter-chunk sleep - time
\* spent sending): never a negative time, nothing when the send used up the
\* budget, and the full remainder otherwise, whatever earlier chunks took.
C26_SleepClampedNoDebt ==
    (client.phase # "none" /\ client.paced) =>
        LET budget == InTicks(client.sleep_time)
        IN  /\ client.slept >= 0
            /\ client.spent >= budget => client.slept = 0
            /\ client.spent < budget => client.slept = budget - client.spent

\* a chunk that is given its full remainder after an earlier chunk overran
C26_Witness ==
    /\ client.phase = "top"
    /\ client.paced
    /\ client.overran
    /\ client.spent < InTicks(client.sleep_time)
    /\ client.slept = InTicks(client.sleep_time) - client.spent
    /\ client.slept > 0

\* C27: within one flow a sample is taken only when at least one second has
\* passed since the previous one (or since the start), so the elapsed-second
\* keys of its buffer are strictly increasing and start at 1 or later,
\* however long the chunks take; and the buffer only ever grows at its end.
C27_SamplesGatedByTimer ==
    /\ [](client.phase # "none" =>
            LET b == client.metrics_buffer
            IN  \A i \in 1 .. Len(b) :
                    /\ b[i].time >= 1
                    /\ i > 1 => b[i].time > b[i - 1].time)
    /\ [][client.phase # "none" =>
            /\ Len(client'.metrics_buffer) >= Len(client.metrics_buffer)
            /\ SubSeq(client'.metrics_buffer, 1, Len(client.metrics_buffer))
                   = client.metrics_buffer
            /\ Len(client'.metrics_buffer) > Len(client.metrics_buffer) =>
                   /\ Len(client'.metrics_buffer) = Len(client.metrics_buffer) + 1
                   /\ client.current_time - client.last_log_time >= TicksPerSec]_vars

\* a flow with two samples, the second one taken off the whole second, some
\* chunk having taken longer than the pacing budget
C27_Witness ==
    /\ client.phase = "done"
    /\ Len(client.metrics_buffer) = 2
    /\ client.last_log_time % TicksPerSec # 0
    /\ client.overran

\* C28: in a run that is neither interrupted nor failing, the teardown steps
\* happen in this order: senders and receivers are signalled, then the raw
\* metrics file is removed, then the network is stopped.  The file is removed
\* only after aggregation has opened it, no sender is left that could write
\* it again, and it does not exist when the run has ended.
C28_TeardownOrder ==
    failure = "none" =>
        /\ "rm_raw" \in teardown =>
              /\ {"pkill_server", "pkill_client"} \subseteq teardown
              /\ aggSeen.opened
        /\ "pkill_client" \in teardown =>
              /\ CountIn(senders, "starting") = 0
              /\ CountIn(senders, "sending") = 0
              /\ servers # "running"
        /\ "net_stop" \in teardown => "rm_raw" \in teardown
        /\ (pc = "exited" /\ netState = "stopped") =>
              /\ ~rawFile.exists
              /\ {"pkill_server", "pkill_client", "rm_raw", "net_stop"} \subseteq teardown

\* a run has ended whose raw metrics file was aggregated and removed and in
\* which a sender was still alive when the processes were signalled
C28_Witness ==
    /\ pc = "exited"
    /\ failure = "none"
    /\ netState = "stopped"
    /\ aggState = "done"
    /\ CountIn(senders, "killed") >= 1
    /\ CountIn(senders, "exited") >= 1
    /\ ~rawFile.exists

\* seconds of a file with a record that aggregation accepts as a whole
CompleteSeconds(lines) ==
    {lines[i].time : i \in {j \in 1 .. Len(lines) : WellFormed(lines[j])}}

\* C29: a line that aggregation rejects counts for neither series: after the
\* aggregation of a run the RTT series and the window series have rows for
\* the same seconds, the seconds for which the file holds a complete record.
C29_LinesTreatedAtomically ==
    (pc \in {"save", "kill", "rm"} /\ aggState = "done") =>
        /\ RowSeconds(rttCsv.lines) = RowSeconds(cwndCsv.lines)
        /\ RowSeconds(rttCsv.lines) = CompleteSeconds(rawFile.lines)

\* C30: the pacing computation never divides by zero and, for every rate the
\* orchestrator can pass to a sender (bandwidth divided by a number of source
\* hosts of at least 1, a rate of 0 included), yields an inter-chunk sleep
\* that is a finite positive time.
C30_PacingSleepPositive ==
    (client.phase \notin {"none", "start"}) =>
        /\ client.sleep_time[2] # 0
        /\ client.sleep_time[1] > 0 /\ client.sleep_time[2] > 0

\* C31: for each of the three accepted topology names, load_topology
\* instantiates the shape's own class and not the imported base class, passes
\* only keywords that the shape's build() accepts, gives the first bottleneck
\* bw, the second 0.8 * bw and (multibottleneck) the third 0.6 * bw, and the
\* construction succeeds: once the load step is over the topology is built.
C31_ConstructionSucceeds ==
    (pc # "load" /\ args.topo \in TopoNames) =>
        LET t == args.topo
            b == LoadBandwidths(t, args.bw)
        IN  /\ LoadedClass(t) # "Topo"
            /\ LoadKwargs(t) \subseteq BuildParams(t)
            /\ (IF t = "dumbbell" THEN b.bw ELSE b.bw1) = <<args.bw, 1>>
            /\ (t # "dumbbell") => b.bw2 = <<8 * args.bw, 10>>
            /\ (t = "multibottleneck") => b.bw3 = <<6 * args.bw, 10>>
            /\ links = Build(t, args.hosts)

====
